---- MODULE Spec2Model ----
(***************************************************************************)
(* Model of include/ews/plumbing.hpp: the scope guard on_scope_exit, the   *)
(* response wrapper http_response, the request builder http_request and    *)
(* the envelope composer make_raw_soap_request.                            *)
(*                                                                         *)
(* Strings and byte buffers are sequences of tokens.  libcurl and RapidXml *)
(* are the environment: the value each of their calls returns is an input  *)
(* of the action that makes the call.                                      *)
(***************************************************************************)
EXTENDS Integers, Sequences, FiniteSets, TLC

VARIABLES
    ndebug,          \* build: NDEBUG is defined
    enable_asserts,  \* build: EWS_ENABLE_ASSERTS is defined
    proc,            \* "running", or "aborted" once assert()/terminate() fired
    alive,           \* an http_response object exists
    data_,           \* http_response::data_
    doc_,            \* http_response::doc_ (the nodes of the document)
    code_,           \* http_response::code_
    parsed_,         \* http_response::parsed_
    data0,           \* probe: the buffer the wrapper was constructed from
    parse_calls,     \* probe: number of calls of rapidxml's parse on the wrapper
    n_payload,       \* probe: number of payload() calls on the wrapper
    code0,           \* probe: the status code the wrapper was constructed with
    moved_from,      \* the http_response the wrapper was moved from, after the move
    ret,             \* outcome of the last operation
    guards,          \* the on_scope_exit objects declared in one scope, in order
    gscope,          \* "open" while the scope runs, "exited" once it was left
    exit_kind,       \* how the scope was left
    rq,              \* the http_request: "none", "ready", "sending", "done"
    handle_,         \* http_request::handle_: "null", "live" or "cleaned"
    headers_,        \* http_request::headers_: the strings of the curl_slist
    opts,            \* the options set on the libcurl handle
    response_data,   \* send's local buffer the write callback fills
    capacity,        \* response_data.capacity()
    write_aborted,   \* the write callback returned a count other than the chunk's
    in_composer,     \* the request is the local of make_raw_soap_request
    appended,        \* probe: the header strings appended to the list so far
    chunks,          \* probe: the chunks libcurl delivered, in order
    cb_escaped,      \* probe: an exception left the write callback
    oom,             \* probe: an allocation failed inside the write callback
    n_perform,       \* probe: number of curl_easy_perform calls
    soap_in,         \* probe: the fragments handed to make_raw_soap_request
    calls,           \* probe: the calls make_raw_soap_request made on its request
    creds_,          \* the ntlm_credentials object handed to set_credentials
    creds_in,        \* probe: the fields that object was constructed with
    resources,       \* probe: libcurl sessions and list nodes acquired and released
    res              \* outcome of the last http_request operation

respVars == <<alive, data_, doc_, code_, parsed_, data0, parse_calls, n_payload,
              code0, moved_from>>

buildVars == <<ndebug, enable_asserts>>

guardVars == <<guards, gscope, exit_kind>>

reqVars == <<rq, handle_, headers_, opts, response_data, capacity,
             write_aborted, in_composer, appended, chunks, cb_escaped, oom,
             n_perform, soap_in, calls, creds_, creds_in, resources, res>>

credVars == <<creds_, creds_in>>

vars == <<ndebug, enable_asserts, proc, alive, data_, doc_, code_, parsed_,
          data0, parse_calls, n_payload, code0, moved_from, ret, guards, gscope, exit_kind,
          rq, handle_, headers_, opts, response_data, capacity,
          write_aborted, in_composer, appended, chunks, cb_escaped, oom,
          n_perform, soap_in, calls, creds_, creds_in, resources, res>>

----------------------------------------------------------------------------
(* Bounds *)

\* longest byte buffer handed to the http_response constructor
MaxLen == 4

\* most payload() calls made on one wrapper
MaxCalls == 3

\* most scope guards declared in one scope
MaxGuards == 2

\* most set_content_type calls on one request
MaxHeaders == 2

\* most chunks libcurl delivers in one transfer
MaxChunks == 2

\* most SOAP header fragments handed to make_raw_soap_request
MaxSoapHeaders == 2

----------------------------------------------------------------------------
(* Bytes of a response buffer, one token per lexical unit of the text *)

NUL == "\\0"

\* an opening tag, a closing tag, a character of text
LT_A == "<a>"

CL_A == "</a>"

TXT == "x"

\* an opening tag whose '>' RapidXml overwrote with the name's terminator
CUT == "<a\\0"

Byte == {LT_A, CL_A, TXT, NUL}

RECURSIVE SeqsUpTo(_, _)
SeqsUpTo(S, n) ==
    IF n = 0 THEN {<<>>}
    ELSE LET shorter == SeqsUpTo(S, n - 1)
         IN  shorter \cup {Append(s, b) : s \in {t \in shorter : Len(t) = n - 1}, b \in S}

\* The buffers a caller hands to the constructor: the empty one, and
\* NUL-terminated ones (send terminates every chunk it stores).
Buffers ==
    {<<>>} \cup {Append(s, NUL) : s \in SeqsUpTo(Byte, MaxLen - 1)}

StatusCodes == {200, 500}

----------------------------------------------------------------------------
(* EWS_ASSERT, plumbing.hpp:18-29 *)

\* TRUE iff evaluating EWS_ASSERT(expr) lets the program continue
EWS_ASSERT_never(expr) == TRUE

EWS_ASSERT(expr) ==
    IF ~ndebug /\ enable_asserts THEN expr ELSE TRUE

----------------------------------------------------------------------------
(* on_scope_exit, plumbing.hpp:117-157 *)

\* What calling the wrapped action does: return, throw something derived
\* from std::exception, or throw anything else.
Throws == {"none", "std::exception", "other"}

\* How capturing the action can fail: copying it into the by-value parameter
\* throws (before the function-try-block is entered), or moving the parameter
\* into func_ throws (inside it).
Captures ==
    {[at |-> "none", kind |-> "none"]}
    \cup {[at |-> a, kind |-> k] : a \in {"parameter", "member"},
                                  k \in {"std::exception", "other"}}

NoThrow == [at |-> "none", kind |-> "none"]

\* The constructor: func_ holds the action unless capturing it throws.  The
\* handler of the function-try-block catches std::exception only: it calls
\* the action at once and the exception leaves the constructor (no object
\* comes into existence).  Any other failure leaves without the call.
on_scope_exit_ctor(capture) ==
    IF capture.at = "none"
    THEN [constructed |-> TRUE, func_ |-> TRUE, runs |-> 0]
    ELSE IF capture.at = "member" /\ capture.kind = "std::exception"
    THEN [constructed |-> FALSE, func_ |-> FALSE, runs |-> 1]
    ELSE [constructed |-> FALSE, func_ |-> FALSE, runs |-> 0]

\* The destructor: how many times it calls the action
on_scope_exit_dtor_never(func) == 0

on_scope_exit_dtor(func) == IF func THEN 1 ELSE 0

\* The destructor: TRUE iff the program survives it.  A std::exception is
\* caught (then EWS_ASSERT(false)); anything else leaves a destructor, which
\* is noexcept, and terminates the program.
on_scope_exit_dtor_survives(func, throws) ==
    IF ~func \/ throws = "none" THEN TRUE
    ELSE IF throws = "std::exception" THEN EWS_ASSERT(FALSE)
    ELSE FALSE

\* The destructor: how it ends when func_ is set and the action throws
on_scope_exit_dtor_outcome(func, throws) ==
    IF ~func THEN "not called"
    ELSE IF throws = "none" THEN "returned"
    ELSE IF on_scope_exit_dtor_survives(func, throws) THEN "swallowed"
    ELSE IF throws = "std::exception" THEN "abort"
    ELSE "terminate"

\* release(): func_ = nullptr
release_noop(func) == func

release(func) == FALSE

----------------------------------------------------------------------------
(* RapidXml's xml_document::parse<0>, called at plumbing.hpp:257 *)

\* Scan from byte i at element depth d; top is the last index at which a
\* top-level node was complete.  The text ends at the first NUL.
RECURSIVE rapidxml_scan(_, _, _, _)
rapidxml_scan(data, i, d, top) ==
    IF i > Len(data)
    THEN [ok |-> FALSE, what |-> "read past the buffer", end |-> i, top |-> top]
    ELSE LET b == data[i]
         IN  CASE b = NUL ->
                    IF d = 0
                    THEN [ok |-> TRUE, what |-> "", end |-> i, top |-> top]
                    ELSE [ok |-> FALSE, what |-> "unexpected end of data",
                          end |-> i, top |-> top]
               [] b = CUT ->
                    [ok |-> FALSE, what |-> "expected >", end |-> i, top |-> top]
               [] b = LT_A -> rapidxml_scan(data, i + 1, d + 1, top)
               [] b = CL_A ->
                    IF d = 0
                    THEN [ok |-> FALSE, what |-> "expected element name",
                          end |-> i, top |-> top]
                    ELSE rapidxml_scan(data, i + 1, d - 1,
                                       IF d = 1 THEN i ELSE top)
               [] OTHER ->
                    IF d = 0
                    THEN [ok |-> FALSE, what |-> "expected <", end |-> i, top |-> top]
                    ELSE rapidxml_scan(data, i + 1, d, top)

\* Destructive mode: the parser writes string terminators into the bytes it
\* consumed (over the '>' of an opening tag, over the '<' that ends a text).
rapidxml_mutate(data, end) ==
    [i \in 1..Len(data) |->
        IF i >= end THEN data[i]
        ELSE IF data[i] = LT_A THEN CUT
        ELSE IF data[i] = CL_A /\ i > 1 /\ data[i - 1] = TXT THEN NUL
        ELSE data[i]]

\* The outcome of doc.parse<0>(&data[0]): the exception raised ("none" or
\* rapidxml::parse_error with its what()), the nodes left in the document
\* and the buffer as the parser left it.
rapidxml_parse(data) ==
    LET r == rapidxml_scan(data, 1, 0, 0)
    IN  [exc  |-> IF r.ok THEN "none" ELSE "rapidxml::parse_error",
         what |-> r.what,
         doc  |-> SubSeq(data, 1, r.top),
         data |-> rapidxml_mutate(data, r.end)]

WellFormed(data) == data # <<>> /\ rapidxml_parse(data).exc = "none"

Malformed(data) == data # <<>> /\ rapidxml_parse(data).exc # "none"

----------------------------------------------------------------------------
(* http_response, plumbing.hpp:188-270 *)

\* http_response::parse: the parser's exception is caught and a
\* parse_error carrying its what() is thrown instead.
parse_no_catch(data) == rapidxml_parse(data)

parse(data) ==
    LET r == rapidxml_parse(data)
    IN  IF r.exc = "rapidxml::parse_error"
        THEN [r EXCEPT !.exc = "ews::parse_error"]
        ELSE r

\* the lambda payload() hands to its scope guard: parsed_ = true
set_parsed_keep(p) == p

set_parsed(p) == TRUE

\* The constructor http_response(code, data), plumbing.hpp:191-195: the
\* wrapper takes the buffer, unless EWS_ASSERT(!data_.empty()) aborts.
http_response_ctor(code, data) ==
    IF EWS_ASSERT(data # <<>>)
    THEN /\ alive' = TRUE
         /\ data_' = data
         /\ doc_' = <<>>
         /\ code_' = code
         /\ parsed_' = FALSE
         /\ data0' = data
         /\ parse_calls' = 0
         /\ n_payload' = 0
         /\ code0' = code
         /\ moved_from' = moved_from
         /\ proc' = proc
    ELSE /\ proc' = "aborted"
         /\ UNCHANGED respVars

\* A caller constructs a wrapper
Construct(code, data) ==
    /\ proc = "running"
    /\ ~alive
    /\ http_response_ctor(code, data)
    /\ ret' = [op |-> "construct",
               exc |-> IF EWS_ASSERT(data # <<>>) THEN "none" ELSE "abort",
               what |-> "", doc |-> <<>>, parsed_now |-> FALSE,
               empty |-> data = <<>>, code |-> 0]
    /\ UNCHANGED <<buildVars, guardVars, reqVars>>

\* What &data_[0] of an empty vector gives the parser is undefined: the
\* build may crash, find a terminator at once, or parse garbage.
EmptyBufferOutcomes == {"crash", "none", "rapidxml::parse_error"}

\* payload(), plumbing.hpp:230-241, on a wrapper not parsed yet
PayloadParse(r) ==
    LET g    == on_scope_exit_ctor(NoThrow)
        runs == on_scope_exit_dtor(g.func_)
    IN  /\ data_' = r.data
        /\ doc_' = r.doc
        /\ parsed_' = IF runs > 0 THEN set_parsed(parsed_) ELSE parsed_
        /\ parse_calls' = parse_calls + 1
        /\ ret' = [op |-> "payload", exc |-> r.exc, what |-> r.what,
                   doc |-> IF r.exc = "none" THEN r.doc ELSE <<>>,
                   parsed_now |-> TRUE, empty |-> data_ = <<>>, code |-> 0]

Payload ==
    /\ proc = "running"
    /\ alive
    /\ n_payload < MaxCalls
    /\ n_payload' = n_payload + 1
    /\ IF parsed_
       THEN /\ ret' = [op |-> "payload", exc |-> "none", what |-> "",
                       doc |-> doc_, parsed_now |-> FALSE, empty |-> data_ = <<>>,
                       code |-> 0]
            /\ UNCHANGED <<data_, doc_, parsed_, parse_calls, proc>>
       ELSE IF data_ # <<>>
       THEN /\ PayloadParse(parse(data_))
            /\ proc' = proc
       ELSE \E o \in EmptyBufferOutcomes :
               IF o = "crash"
               THEN /\ proc' = "aborted"
                    /\ ret' = [op |-> "payload", exc |-> "abort", what |-> "",
                               doc |-> <<>>, parsed_now |-> TRUE, empty |-> TRUE,
                               code |-> 0]
                    /\ UNCHANGED <<data_, doc_, parsed_, parse_calls>>
               ELSE /\ proc' = proc
                    /\ PayloadParse(
                          LET r == [exc |-> o, what |-> "garbage",
                                    doc |-> <<>>, data |-> data_]
                          IN  IF r.exc = "rapidxml::parse_error"
                              THEN [r EXCEPT !.exc = "ews::parse_error"]
                              ELSE r)
    /\ UNCHANGED <<alive, code_, data0, code0, moved_from>>
    /\ UNCHANGED <<buildVars, guardVars, reqVars>>

\* code(), plumbing.hpp:244-247
http_response_code_reset(c) == 0

http_response_code(c) == c

Code ==
    /\ proc = "running"
    /\ alive
    /\ ret' = [op |-> "code", exc |-> "none", what |-> "", doc |-> <<>>,
               parsed_now |-> FALSE, empty |-> data_ = <<>>, code |-> http_response_code(code_)]
    /\ UNCHANGED <<proc, respVars, buildVars, guardVars, reqVars>>

\* The members of an http_response as one record
Members(d, x, c, p) == [data_ |-> d, doc_ |-> x, code_ |-> c, parsed_ |-> p]

\* no second wrapper yet
NoWrapper ==
    [exists |-> FALSE, by |-> "none", now |-> Members(<<>>, <<>>, 0, FALSE),
     before |-> Members(<<>>, <<>>, 0, FALSE)]

\* What a moved-from rapidxml::xml_document holds is RapidXml's affair: it is
\* left empty, or it keeps its nodes.
MovedFromDocs(doc) == {<<>>, doc}

\* The move constructor, plumbing.hpp:200-207: the members are moved one by
\* one (moving a long or a bool copies it), then other.code_ = 0U.
http_response_move_ctor(other, doc_left) ==
    [self  |-> Members(other.data_, other.doc_, other.code_, other.parsed_),
     other |-> Members(<<>>, doc_left, 0, other.parsed_)]

\* Move assignment, plumbing.hpp:209-219; same means &rhs == this
http_response_move_assign(self, rhs, same, doc_left) ==
    IF same
    THEN [self |-> self, other |-> self]
    ELSE [self  |-> Members(rhs.data_, rhs.doc_, rhs.code_, rhs.parsed_),
          other |-> Members(<<>>, doc_left, rhs.code_, rhs.parsed_)]

\* The wrapper is moved into another http_response, which is the wrapper
\* the calls are made on from now on; the object it was moved from stays.
\* by is "ctor" (http_response b(std::move(a))), "assign" (b = std::move(a))
\* or "self" (a = std::move(a)).
Move(by, doc_left) ==
    /\ proc = "running"
    /\ alive
    /\ ~moved_from.exists
    /\ LET src == Members(data_, doc_, code_, parsed_)
           m   == IF by = "ctor"
                  THEN http_response_move_ctor(src, doc_left)
                  ELSE http_response_move_assign(Members(<<NUL>>, <<>>, 0, FALSE),
                                                 src, FALSE, doc_left)
           s   == http_response_move_assign(src, src, TRUE, doc_left)
       IN  IF by = "self"
           THEN /\ data_' = s.self.data_
                /\ doc_' = s.self.doc_
                /\ code_' = s.self.code_
                /\ parsed_' = s.self.parsed_
                /\ moved_from' = moved_from
           ELSE /\ data_' = m.self.data_
                /\ doc_' = m.self.doc_
                /\ code_' = m.self.code_
                /\ parsed_' = m.self.parsed_
                /\ moved_from' = [exists |-> TRUE, by |-> by, now |-> m.other,
                                  before |-> src]
    /\ ret' = [op |-> "move", exc |-> "none", what |-> "", doc |-> <<>>,
               parsed_now |-> FALSE, empty |-> data_ = <<>>, code |-> 0]
    /\ UNCHANGED <<alive, data0, parse_calls, n_payload, code0>>
    /\ UNCHANGED <<proc, buildVars, guardVars, reqVars>>

\* payload() on the moved-from object: with parsed_ set it hands out its
\* doc_; otherwise it parses its (empty) buffer.
PayloadMovedFrom ==
    /\ proc = "running"
    /\ moved_from.exists
    /\ ret.op # "payload on moved-from"
    /\ IF moved_from.now.parsed_
       THEN /\ ret' = [op |-> "payload on moved-from", exc |-> "none",
                       what |-> "", doc |-> moved_from.now.doc_,
                       parsed_now |-> FALSE, empty |-> TRUE, code |-> 0]
            /\ UNCHANGED <<proc, moved_from>>
       ELSE \E o \in EmptyBufferOutcomes :
               /\ proc' = IF o = "crash" THEN "aborted" ELSE proc
               /\ moved_from' =
                     IF o = "crash" THEN moved_from
                     ELSE [moved_from EXCEPT !.now.parsed_ = set_parsed(@)]
               /\ ret' = [op |-> "payload on moved-from",
                          exc |-> IF o = "crash" THEN "abort"
                                  ELSE IF o = "none" THEN "none"
                                  ELSE "ews::parse_error",
                          what |-> "", doc |-> <<>>, parsed_now |-> TRUE,
                          empty |-> TRUE, code |-> 0]
    /\ UNCHANGED <<alive, data_, doc_, code_, parsed_, data0, parse_calls,
                   n_payload, code0>>
    /\ UNCHANGED <<buildVars, guardVars, reqVars>>

----------------------------------------------------------------------------
(* Scope guards declared in one scope, as in the test at plumbing.hpp:714-756 *)

\* Leaving the scope destroys its guards, last declared first, until one
\* destructor ends the program.
RECURSIVE unwind(_, _)
unwind(gs, i) ==
    IF i = 0 THEN [guards |-> gs, survived |-> TRUE]
    ELSE LET g     == gs[i]
             after == [gs EXCEPT ![i].runs = g.runs + on_scope_exit_dtor(g.func_),
                                 ![i].dtor = on_scope_exit_dtor_outcome(g.func_, g.throws)]
         IN  IF on_scope_exit_dtor_survives(g.func_, g.throws)
             THEN unwind(after, i - 1)
             ELSE [guards |-> after, survived |-> FALSE]

LeaveScope(gs, kind) ==
    LET u == unwind(gs, Len(gs))
    IN  /\ guards' = u.guards
        /\ gscope' = "exited"
        /\ exit_kind' = kind
        /\ proc' = IF u.survived THEN proc ELSE "aborted"

\* on_scope_exit g(action); capturing the action may throw, and the action
\* throws what its throws field says whenever it is called
GuardConstruct(capture, throws) ==
    /\ proc = "running"
    /\ gscope = "open"
    /\ Len(guards) < MaxGuards
    /\ LET c == on_scope_exit_ctor(capture)
           g == [constructed |-> c.constructed, func_ |-> c.func_,
                 runs |-> c.runs, released |-> FALSE, throws |-> throws,
                 capture |-> capture, dtor |-> "none"]
       IN  IF c.constructed
           THEN /\ guards' = Append(guards, g)
                /\ UNCHANGED <<gscope, exit_kind, proc>>
           ELSE LeaveScope(Append(guards, g), "exception")
    /\ UNCHANGED <<respVars, buildVars, ret, reqVars>>

\* g.release()
GuardRelease(i) ==
    /\ proc = "running"
    /\ gscope = "open"
    /\ i \in 1..Len(guards)
    /\ guards' = [guards EXCEPT ![i].func_ = release(guards[i].func_),
                                ![i].released = TRUE]
    /\ UNCHANGED <<gscope, exit_kind, proc, respVars, buildVars, ret, reqVars>>

\* The scope is left: it ends, returns early, or an exception passes through
ExitKinds == {"normal", "return", "exception"}

ScopeExit(kind) ==
    /\ proc = "running"
    /\ gscope = "open"
    /\ LeaveScope(guards, kind)
    /\ UNCHANGED <<respVars, buildVars, ret, reqVars>>

NextGuard ==
    \/ \E c \in Captures, t \in Throws : GuardConstruct(c, t)
    \/ \E i \in 1..MaxGuards : GuardRelease(i)
    \/ \E k \in ExitKinds : ScopeExit(k)

----------------------------------------------------------------------------
(* libcurl as plumbing.hpp calls it: result codes, curl_easy_strerror *)

\* the result codes curl_easy_setopt hands back
SetoptCodes ==
    {"CURLE_OK", "CURLE_FAILED_INIT", "CURLE_UNKNOWN_OPTION", "CURLE_OUT_OF_MEMORY"}

\* the result codes curl_easy_perform hands back
PerformCodes ==
    {"CURLE_OK", "CURLE_COULDNT_CONNECT", "CURLE_OPERATION_TIMEDOUT",
     "CURLE_SSL_CONNECT_ERROR", "CURLE_WRITE_ERROR"}

curl_easy_strerror(rescode) ==
    CASE rescode = "CURLE_OK" -> "No error"
      [] rescode = "CURLE_FAILED_INIT" -> "Failed initialization"
      [] rescode = "CURLE_UNKNOWN_OPTION" ->
            "An unknown option was passed in to libcurl"
      [] rescode = "CURLE_OUT_OF_MEMORY" -> "Out of memory"
      [] rescode = "CURLE_COULDNT_CONNECT" -> "Couldn't connect to server"
      [] rescode = "CURLE_OPERATION_TIMEDOUT" -> "Timeout was reached"
      [] rescode = "CURLE_SSL_CONNECT_ERROR" -> "SSL connect error"
      [] rescode = "CURLE_WRITE_ERROR" ->
            "Failed writing received data to disk/application"
      [] OTHER -> "Unknown error"

OptNames ==
    {"CURLOPT_URL", "CURLOPT_POST", "CURLOPT_USERPWD", "CURLOPT_HTTPAUTH",
     "CURLOPT_VERBOSE", "CURLOPT_USERAGENT", "CURLOPT_POSTFIELDS",
     "CURLOPT_POSTFIELDSIZE", "CURLOPT_HTTPHEADER", "CURLOPT_WRITEFUNCTION",
     "CURLOPT_WRITEDATA", "CURLOPT_SSL_VERIFYPEER", "CURLOPT_TIMEOUT"}

\* a handle with no option set; a set option holds <<value>>
NoOpts == [o \in OptNames |-> <<>>]

----------------------------------------------------------------------------
(* curl::make_error, curl_ptr, curl_string_list: plumbing.hpp:63-110 *)

\* msg + ": '" + reason + "'"
make_error(msg, rescode) ==
    <<msg, ": '", curl_easy_strerror(rescode), "'">>

\* curl_ptr(): the session curl_easy_init gave, or curl_error
curl_ptr_ctor_unchecked(init_ok) ==
    [handle_ |-> IF init_ok THEN "live" ELSE "null", exc |-> "none", what |-> <<>>]

curl_ptr_ctor(init_ok) ==
    IF init_ok
    THEN [handle_ |-> "live", exc |-> "none", what |-> <<>>]
    ELSE [handle_ |-> "null", exc |-> "curl_error",
          what |-> <<"Could not start libcurl session">>]

\* curl_string_list::append: slist_ = curl_slist_append(slist_, str), which
\* gives the list with str added, or NULL (the empty list) when it fails
curl_string_list_append(slist, str, ok) ==
    IF ok THEN Append(slist, str) ELSE <<>>

\* Calls made so far: curl_easy_init that gave a session, curl_easy_cleanup,
\* curl_slist_free_all; list nodes curl_slist_append allocated, and freed
NoResources == [init |-> 0, cleanup |-> 0, free_all |-> 0, nodes |-> 0, freed |-> 0]

\* curl_ptr() on a session acquired, plumbing.hpp:73
acquire_session(r, init_ok) ==
    IF init_ok THEN [r EXCEPT !.init = @ + 1] ELSE r

\* a curl_slist_append that gave a node, plumbing.hpp:103
acquire_node(r, ok) ==
    IF ok THEN [r EXCEPT !.nodes = @ + 1] ELSE r

\* ~http_request: ~curl_string_list frees the nodes slist_ points to
\* (plumbing.hpp:99), then ~curl_ptr cleans the session up (plumbing.hpp:81)
destroy_members(r, slist) ==
    [r EXCEPT !.free_all = @ + 1, !.freed = @ + Len(slist), !.cleanup = @ + 1]

----------------------------------------------------------------------------
(* http_request, plumbing.hpp:298-435 *)

\* set_option, plumbing.hpp:337-359, given what curl_easy_setopt returns
set_option_ignore(o, option, value, retcode) ==
    [opts |-> IF retcode = "CURLE_OK" THEN [o EXCEPT ![option] = <<value>>] ELSE o,
     exc |-> "none", what |-> <<>>, rc |-> retcode]

set_option(o, option, value, retcode) ==
    CASE retcode = "CURLE_OK" ->
            [opts |-> [o EXCEPT ![option] = <<value>>],
             exc |-> "none", what |-> <<>>, rc |-> retcode]
      [] retcode = "CURLE_FAILED_INIT" ->
            [opts |-> o, exc |-> "curl_error", rc |-> retcode,
             what |-> make_error("curl_easy_setopt: unsupported option", retcode)]
      [] OTHER ->
            [opts |-> o, exc |-> "curl_error", rc |-> retcode,
             what |-> make_error("curl_easy_setopt: failed setting option", retcode)]

\* A run of set_option calls, settings[i] = <<option, value>>, stopped by the
\* first that throws.  curl_easy_setopt returns retcode at call fail_at and
\* CURLE_OK at the others; seen is the first result that was not CURLE_OK.
RECURSIVE set_options_from(_, _, _, _, _, _)
set_options_from(o, settings, i, fail_at, retcode, seen) ==
    IF i > Len(settings)
    THEN [opts |-> o, exc |-> "none", what |-> <<>>, rc |-> seen]
    ELSE LET r == set_option(o, settings[i][1], settings[i][2],
                             IF i = fail_at THEN retcode ELSE "CURLE_OK")
             s == IF seen = "CURLE_OK" THEN r.rc ELSE seen
         IN  IF r.exc # "none"
             THEN [r EXCEPT !.rc = s]
             ELSE set_options_from(r.opts, settings, i + 1, fail_at, retcode, s)

set_options(o, settings, fail_at, retcode) ==
    set_options_from(o, settings, 1, fail_at, retcode, "CURLE_OK")

\* http_request(url), plumbing.hpp:307-310: the members, then CURLOPT_URL
http_request_ctor(url, init_ok, fail_at, retcode) ==
    LET h == curl_ptr_ctor(init_ok)
        r == set_options(NoOpts, << <<"CURLOPT_URL", url>> >>, fail_at, retcode)
    IN  IF h.exc # "none"
        THEN [handle_ |-> h.handle_, opts |-> NoOpts, exc |-> h.exc,
              what |-> h.what, rc |-> "CURLE_OK"]
        ELSE IF r.exc # "none"
        THEN [handle_ |-> "cleaned", opts |-> NoOpts, exc |-> r.exc,
              what |-> r.what, rc |-> r.rc]
        ELSE [handle_ |-> h.handle_, opts |-> r.opts, exc |-> "none",
              what |-> <<>>, rc |-> r.rc]

\* set_method, plumbing.hpp:313-317
set_method(o, fail_at, retcode) ==
    set_options(o, << <<"CURLOPT_POST", 1>> >>, fail_at, retcode)

\* set_content_type, plumbing.hpp:320-324
content_type_header(content_type) == <<"Content-Type: ", content_type>>

set_content_type(slist, content_type, ok) ==
    curl_string_list_append(slist, content_type_header(content_type), ok)

\* ntlm_credentials(username, password, domain), plumbing.hpp:282-288
ntlm_credentials(username, password, domain) ==
    [username |-> username, password |-> password, domain |-> domain]

\* ntlm_credentials::certify, plumbing.hpp:494-502: a const member, it
\* reads the three fields and sets two options on the request
certify_user_first(o, creds, fail_at, retcode) ==
    LET login == <<creds.username, "\\", creds.domain, ":", creds.password>>
    IN  set_options(o, << <<"CURLOPT_USERPWD", login>>,
                          <<"CURLOPT_HTTPAUTH", "CURLAUTH_NTLM">> >>,
                    fail_at, retcode)

certify(o, creds, fail_at, retcode) ==
    LET login == <<creds.domain, "\\", creds.username, ":", creds.password>>
    IN  set_options(o, << <<"CURLOPT_USERPWD", login>>,
                          <<"CURLOPT_HTTPAUTH", "CURLAUTH_NTLM">> >>,
                    fail_at, retcode)

\* the options send sets before the transfer, plumbing.hpp:369-419
send_options_no_target(request, slist) ==
    << <<"CURLOPT_USERAGENT", "libcurl-agent/1.0">>,
       <<"CURLOPT_POSTFIELDS", request>>,
       <<"CURLOPT_POSTFIELDSIZE", Len(request)>>,
       <<"CURLOPT_HTTPHEADER", slist>>,
       <<"CURLOPT_WRITEFUNCTION", "callback">> >>

send_options(request, slist) ==
    (IF ndebug THEN <<>> ELSE << <<"CURLOPT_VERBOSE", 1>> >>)
    \o << <<"CURLOPT_USERAGENT", "libcurl-agent/1.0">>,
          <<"CURLOPT_POSTFIELDS", request>>,
          <<"CURLOPT_POSTFIELDSIZE", Len(request)>>,
          <<"CURLOPT_HTTPHEADER", slist>>,
          <<"CURLOPT_WRITEFUNCTION", "callback">>,
          <<"CURLOPT_WRITEDATA", "&response_data">> >>
    \o (IF ndebug THEN <<>> ELSE << <<"CURLOPT_SSL_VERIFYPEER", 0>> >>)

\* std::vector: appending bytes one by one; a full vector grows (doubles),
\* and the allocation throws std::bad_alloc when grow_ok is false
RECURSIVE push_back_all(_, _, _, _)
push_back_all(buf, cap, bytes, grow_ok) ==
    IF bytes = <<>> THEN [buf |-> buf, cap |-> cap, threw |-> FALSE]
    ELSE IF Len(buf) < cap
    THEN push_back_all(Append(buf, Head(bytes)), cap, Tail(bytes), grow_ok)
    ELSE IF grow_ok
    THEN push_back_all(Append(buf, Head(bytes)),
                       IF cap = 0 THEN 1 ELSE cap + cap, Tail(bytes), grow_ok)
    ELSE [buf |-> buf, cap |-> cap, threw |-> TRUE]

\* The write callback, plumbing.hpp:388-407, on a chunk of realsize bytes:
\* the buffer after it, the count it returns, and whether std::bad_alloc
\* left it.  reserve allocates only if it has to.
callback(buf, cap, chunk, reserve_ok, grow_ok) ==
    LET realsize == Len(chunk)
    IN  IF realsize + 1 > cap /\ ~reserve_ok
        THEN [buf |-> buf, cap |-> cap, returned |-> 0, threw |-> FALSE,
              oom |-> TRUE]
        ELSE LET cap1 == IF realsize + 1 > cap THEN realsize + 1 ELSE cap
                 p    == push_back_all(buf, cap1, chunk \o <<NUL>>, grow_ok)
             IN  [buf |-> p.buf, cap |-> p.cap, returned |-> realsize,
                  threw |-> p.threw, oom |-> p.threw]

\* the envelope make_raw_soap_request writes, plumbing.hpp:461-487
XML_DECL == "<?xml version=\"1.0\" encoding=\"utf-8\"?>\n"

ENV_OPEN == "<soap:Envelope xmlns:xsi xmlns:xsd xmlns:soap xmlns:m xmlns:t >"

HDR_OPEN == "<soap:Header>\n"

HDR_CLOSE == "</soap:Header>\n"

BODY_OPEN == "<soap:Body>\n"

BODY_CLOSE == "</soap:Body>\n"

ENV_CLOSE == "</soap:Envelope>\n"

\* A fragment is one token: it is written verbatim.
envelope_always_header(soap_body, soap_headers) ==
    <<XML_DECL, ENV_OPEN>>
    \o <<HDR_OPEN>> \o soap_headers \o <<HDR_CLOSE>>
    \o <<BODY_OPEN, soap_body, BODY_CLOSE>>
    \o <<ENV_CLOSE>>

envelope(soap_body, soap_headers) ==
    <<XML_DECL, ENV_OPEN>>
    \o (IF soap_headers # <<>>
        THEN <<HDR_OPEN>> \o soap_headers \o <<HDR_CLOSE>>
        ELSE <<>>)
    \o <<BODY_OPEN, soap_body, BODY_CLOSE>>
    \o <<ENV_CLOSE>>

----------------------------------------------------------------------------
(* Inputs of the request builder *)

URLs == {"https://example.test/ews"}

ContentTypes == {"text/xml; charset=utf-8", "application/json"}

Credentials ==
    {ntlm_credentials("alice", "secret", "CORP"),
     ntlm_credentials("bob", "", "")}

Bodies == {"<m:Ping/>", ""}

SoapHeaders == {"<t:Bar/>", "<t:RequestServerVersion/>"}

HttpCodes == {200, 401}

\* the chunks libcurl hands to the write callback
Chunks == {<<>>, <<LT_A>>, <<CL_A>>, <<LT_A, CL_A>>}

NoResult ==
    [op |-> "none", exc |-> "none", what |-> <<>>, rc |-> "CURLE_OK",
     response |-> <<>>]

Result(op, r) ==
    [op |-> op, exc |-> r.exc, what |-> r.what, rc |-> r.rc, response |-> <<>>]

transferVars == <<response_data, capacity, write_aborted, chunks, cb_escaped,
                  oom, n_perform>>

----------------------------------------------------------------------------
(* Calls on an http_request *)

\* http_request request{url}
RequestConstruct(url, init_ok, retcode) ==
    /\ proc = "running"
    /\ rq = "none"
    /\ LET c == http_request_ctor(url, init_ok, 1, retcode)
       IN  /\ handle_' = c.handle_
           /\ opts' = c.opts
           /\ rq' = IF c.exc = "none" THEN "ready" ELSE "failed"
           /\ res' = Result("http_request", c)
           /\ resources' =
                 LET a == acquire_session(resources, init_ok)
                 IN  IF init_ok /\ c.exc # "none"
                     THEN destroy_members(a, <<>>)
                     ELSE a
    /\ UNCHANGED <<headers_, appended, in_composer, soap_in, calls, transferVars>>
    /\ UNCHANGED <<proc, ret, respVars, buildVars, guardVars>>
    /\ UNCHANGED credVars

\* request.set_method(method::POST)
SetMethod(retcode) ==
    /\ proc = "running"
    /\ rq = "ready"
    /\ LET r == set_method(opts, 1, retcode)
       IN  /\ opts' = r.opts
           /\ res' = Result("set_method", r)
    /\ UNCHANGED <<rq, handle_, headers_, appended, in_composer, soap_in, calls,
                   transferVars>>
    /\ UNCHANGED <<proc, ret, respVars, buildVars, guardVars>>
    /\ UNCHANGED credVars
    /\ UNCHANGED resources

\* request.set_content_type(content_type); curl_slist_append may fail
SetContentType(content_type, ok) ==
    /\ proc = "running"
    /\ rq = "ready"
    /\ Len(appended) < MaxHeaders
    /\ headers_' = set_content_type(headers_, content_type, ok)
    /\ appended' = IF ok THEN Append(appended, content_type_header(content_type))
                   ELSE appended
    /\ res' = [NoResult EXCEPT !.op = "set_content_type"]
    /\ resources' = acquire_node(resources, ok)
    /\ UNCHANGED <<rq, handle_, opts, in_composer, soap_in, calls, transferVars>>
    /\ UNCHANGED <<proc, ret, respVars, buildVars, guardVars>>
    /\ UNCHANGED credVars

\* request.set_credentials(creds)
SetCredentials(creds, fail_at, retcode) ==
    /\ proc = "running"
    /\ rq = "ready"
    /\ LET r == certify(opts, creds, fail_at, retcode)
       IN  /\ opts' = r.opts
           /\ res' = Result("set_credentials", r)
    /\ creds_' = creds
    /\ creds_in' = creds
    /\ UNCHANGED <<rq, handle_, headers_, appended, in_composer, soap_in, calls,
                   transferVars>>
    /\ UNCHANGED <<proc, ret, respVars, buildVars, guardVars>>
    /\ UNCHANGED resources

\* request.set_option(option, value)
SetOption(option, value, retcode) ==
    /\ proc = "running"
    /\ rq = "ready"
    /\ LET r == set_option(opts, option, value, retcode)
       IN  /\ opts' = r.opts
           /\ res' = Result("set_option", r)
    /\ UNCHANGED <<rq, handle_, headers_, appended, in_composer, soap_in, calls,
                   transferVars>>
    /\ UNCHANGED <<proc, ret, respVars, buildVars, guardVars>>
    /\ UNCHANGED credVars
    /\ UNCHANGED resources

\* send(request) up to its call of curl_easy_perform, plumbing.hpp:367-421
SendBegin(request, fail_at, retcode) ==
    /\ proc = "running"
    /\ rq = "ready"
    /\ LET r == set_options(opts, send_options(request, headers_), fail_at, retcode)
       IN  /\ opts' = r.opts
           /\ res' = Result("send", r)
           /\ rq' = IF r.exc = "none" THEN "sending" ELSE "done"
           /\ n_perform' = IF r.exc = "none" THEN n_perform + 1 ELSE n_perform
    /\ response_data' = <<>>
    /\ capacity' = 0
    /\ write_aborted' = FALSE
    /\ chunks' = <<>>
    /\ UNCHANGED <<handle_, headers_, appended, in_composer, soap_in, calls, cb_escaped,
                   oom>>
    /\ UNCHANGED <<proc, ret, respVars, buildVars, guardVars>>
    /\ UNCHANGED credVars
    /\ UNCHANGED resources

\* The request object is destroyed when send was called by
\* make_raw_soap_request and returns or throws.
AfterSend ==
    IF in_composer
    THEN /\ handle_' = "cleaned"
         /\ headers_' = <<>>
         /\ resources' = destroy_members(resources, headers_)
    ELSE UNCHANGED <<handle_, headers_, resources>>

\* A request constructed by a caller goes out of scope, after its calls
\* returned or one of them raised
RequestDestroy ==
    /\ proc = "running"
    /\ rq \in {"ready", "done"}
    /\ ~in_composer
    /\ rq' = "destroyed"
    /\ handle_' = "cleaned"
    /\ headers_' = <<>>
    /\ resources' = destroy_members(resources, headers_)
    /\ UNCHANGED <<opts, appended, in_composer, soap_in, calls, res, transferVars>>
    /\ UNCHANGED credVars
    /\ UNCHANGED <<proc, ret, respVars, buildVars, guardVars>>

\* An exception in a callback libcurl (C code) called: the program is
\* terminated, or the exception unwinds through libcurl and leaves send.
EscapeOutcomes == {"terminate", "unwinds"}

\* libcurl hands a chunk to the write callback during curl_easy_perform
WriteCallback(chunk, reserve_ok, grow_ok, escape) ==
    /\ proc = "running"
    /\ rq = "sending"
    /\ ~write_aborted
    /\ Len(chunks) < MaxChunks
    /\ LET c == callback(response_data, capacity, chunk, reserve_ok, grow_ok)
       IN  /\ response_data' = c.buf
           /\ capacity' = c.cap
           /\ chunks' = Append(chunks, chunk)
           /\ cb_escaped' = (cb_escaped \/ c.threw)
           /\ oom' = (oom \/ c.oom)
           /\ write_aborted' = (~c.threw /\ c.returned # Len(chunk))
           /\ IF ~c.threw
              THEN UNCHANGED <<proc, rq, res, handle_, headers_, resources>>
              ELSE IF escape = "terminate"
              THEN /\ proc' = "aborted"
                   /\ UNCHANGED <<rq, res, handle_, headers_, resources>>
              ELSE /\ proc' = proc
                   /\ rq' = "done"
                   /\ res' = [NoResult EXCEPT !.op = "send",
                                              !.exc = "std::bad_alloc"]
                   /\ AfterSend
    /\ UNCHANGED <<opts, appended, in_composer, soap_in, calls, n_perform>>
    /\ UNCHANGED <<ret, respVars, buildVars, guardVars>>
    /\ UNCHANGED credVars

\* curl_easy_perform returns retcode; send throws or reads the status code
\* and returns the wrapper, plumbing.hpp:421-429
PerformReturn(retcode, response_code) ==
    /\ proc = "running"
    /\ rq = "sending"
    /\ write_aborted <=> (retcode = "CURLE_WRITE_ERROR")
    /\ rq' = "done"
    /\ IF retcode # "CURLE_OK"
       THEN /\ res' = [NoResult EXCEPT !.op = "send", !.exc = "curl_error",
                           !.what = make_error("curl_easy_perform", retcode),
                           !.rc = retcode]
            /\ UNCHANGED <<response_data, capacity, proc, respVars>>
       ELSE /\ http_response_ctor(response_code, response_data)
            /\ res' = [NoResult EXCEPT !.op = "send",
                           !.exc = IF EWS_ASSERT(response_data # <<>>)
                                   THEN "none" ELSE "abort",
                           !.response = <<[code |-> response_code,
                                           data |-> response_data]>>]
            /\ response_data' = <<>>
            /\ capacity' = 0
    /\ AfterSend
    /\ UNCHANGED <<opts, appended, in_composer, soap_in, calls, write_aborted, chunks,
                   cb_escaped, oom, n_perform>>
    /\ UNCHANGED <<ret, buildVars, guardVars>>
    /\ UNCHANGED credVars

\* the calls make_raw_soap_request makes on its request, in order
ComposerCalls ==
    <<"http_request", "set_method", "set_content_type", "set_credentials", "send">>

\* make_raw_soap_request, plumbing.hpp:448-490, up to the call of
\* curl_easy_perform inside send.  curl_easy_setopt returns retcode at its
\* call number fail_at (counted over the whole function).
make_raw_soap_request(url, creds, soap_body, soap_headers, init_ok, append_ok, fail_at, retcode) ==
    /\ proc = "running"
    /\ rq = "none"
    /\ LET c  == http_request_ctor(url, init_ok, fail_at, retcode)
           m  == set_method(c.opts, fail_at - 1, retcode)
           hl == set_content_type(<<>>, "text/xml; charset=utf-8", append_ok)
           k  == certify(m.opts, creds, fail_at - 2, retcode)
           e  == envelope(soap_body, soap_headers)
           s  == set_options(k.opts, send_options(e, hl), fail_at - 4, retcode)
           r  == IF c.exc # "none" THEN Result("http_request", c)
                 ELSE IF m.exc # "none" THEN Result("set_method", m)
                 ELSE IF k.exc # "none" THEN Result("set_credentials", k)
                 ELSE Result("send", s)
           o  == IF c.exc # "none" THEN c.opts
                 ELSE IF m.exc # "none" THEN m.opts
                 ELSE IF k.exc # "none" THEN k.opts
                 ELSE s.opts
       IN  /\ res' = r
           /\ opts' = o
           /\ rq' = IF r.exc = "none" THEN "sending" ELSE "done"
           /\ n_perform' = IF r.exc = "none" THEN n_perform + 1 ELSE n_perform
           /\ handle_' = IF r.exc = "none" \/ c.exc # "none" THEN c.handle_
                         ELSE "cleaned"
           /\ headers_' = IF r.exc = "none" THEN hl ELSE <<>>
           /\ resources' =
                 LET a == acquire_session(resources, init_ok)
                     n == IF c.exc = "none" /\ m.exc = "none"
                          THEN acquire_node(a, append_ok) ELSE a
                     l == IF c.exc = "none" /\ m.exc = "none" THEN hl ELSE <<>>
                 IN  IF init_ok /\ r.exc # "none"
                     THEN destroy_members(n, l)
                     ELSE n
           /\ appended' = IF append_ok /\ c.exc = "none" /\ m.exc = "none"
                          THEN <<content_type_header("text/xml; charset=utf-8")>>
                          ELSE <<>>
    /\ in_composer' = TRUE
    /\ soap_in' = [body |-> soap_body, headers |-> soap_headers]
    /\ calls' = LET c == http_request_ctor(url, init_ok, fail_at, retcode)
                    m == set_method(c.opts, fail_at - 1, retcode)
                    k == certify(m.opts, creds, fail_at - 2, retcode)
                IN  IF c.exc # "none" THEN SubSeq(ComposerCalls, 1, 1)
                    ELSE IF m.exc # "none" THEN SubSeq(ComposerCalls, 1, 2)
                    ELSE IF k.exc # "none" THEN SubSeq(ComposerCalls, 1, 4)
                    ELSE ComposerCalls
    /\ creds_' = creds
    /\ creds_in' = creds
    /\ response_data' = <<>>
    /\ capacity' = 0
    /\ write_aborted' = FALSE
    /\ chunks' = <<>>
    /\ UNCHANGED <<cb_escaped, oom>>
    /\ UNCHANGED <<proc, ret, respVars, buildVars, guardVars>>

\* curl_easy_setopt returns CURLE_OK at every call (fail_at = 0), or one of
\* the other codes at call fail_at
SetoptFailures(n) ==
    {<<0, "CURLE_OK">>} \cup ((1..n) \X (SetoptCodes \ {"CURLE_OK"}))

\* Configuring a request, up to the start of its transfer
NextRequest ==
    \/ \E u \in URLs, ok \in BOOLEAN, f \in SetoptFailures(1) :
          RequestConstruct(u, ok, f[2])
    \/ \E f \in SetoptFailures(1) : SetMethod(f[2])
    \/ \E ct \in ContentTypes, ok \in BOOLEAN : SetContentType(ct, ok)
    \/ \E cr \in Credentials, f \in SetoptFailures(2) : SetCredentials(cr, f[1], f[2])
    \/ \E f \in SetoptFailures(1) : SetOption("CURLOPT_TIMEOUT", 30, f[2])
    \/ \E b \in Bodies : SendBegin(<<b>>, 0, "CURLE_OK")
    \/ RequestDestroy

\* send on a configured request: its options, the transfer, its result
NextTransfer ==
    \/ \E b \in Bodies, f \in SetoptFailures(8) : SendBegin(<<b>>, f[1], f[2])
    \/ \E ch \in Chunks, rok \in BOOLEAN, gok \in BOOLEAN, e \in EscapeOutcomes :
          WriteCallback(ch, rok, gok, e)
    \/ \E rc \in PerformCodes, code \in HttpCodes : PerformReturn(rc, code)
    \/ RequestDestroy

\* make_raw_soap_request against a server that answers in chunks of one
\* fixed text
NextComposer ==
    \/ /\ rq = "none"
       /\ \E u \in URLs, cr \in Credentials, b \in Bodies,
             hs \in SeqsUpTo(SoapHeaders, MaxSoapHeaders),
             iok \in BOOLEAN, aok \in BOOLEAN, f \in SetoptFailures(12) :
             make_raw_soap_request(u, cr, b, hs, iok, aok, f[1], f[2])
    \/ \E gok \in BOOLEAN, e \in EscapeOutcomes :
          WriteCallback(<<LT_A, CL_A>>, TRUE, gok, e)
    \/ \E rc \in PerformCodes, code \in HttpCodes : PerformReturn(rc, code)

----------------------------------------------------------------------------
(* Specifications *)

\* Nothing constructed yet, in any of the four builds
InitOthers ==
    /\ ndebug \in BOOLEAN
    /\ enable_asserts \in BOOLEAN
    /\ proc = "running"
    /\ alive = FALSE
    /\ data_ = <<>>
    /\ doc_ = <<>>
    /\ code_ = 0
    /\ parsed_ = FALSE
    /\ data0 = <<>>
    /\ parse_calls = 0
    /\ n_payload = 0
    /\ code0 = 0
    /\ moved_from = NoWrapper
    /\ ret = [op |-> "none", exc |-> "none", what |-> "", doc |-> <<>>,
              parsed_now |-> FALSE, empty |-> FALSE, code |-> 0]
    /\ guards = <<>>
    /\ gscope = "open"
    /\ exit_kind = "none"
    /\ response_data = <<>>
    /\ capacity = 0
    /\ write_aborted = FALSE
    /\ in_composer = FALSE
    /\ chunks = <<>>
    /\ cb_escaped = FALSE
    /\ oom = FALSE
    /\ n_perform = 0
    /\ soap_in = [body |-> "", headers |-> <<>>]
    /\ calls = <<>>
    /\ creds_ = ntlm_credentials("", "", "")
    /\ creds_in = creds_

Init ==
    /\ InitOthers
    /\ resources = NoResources
    /\ rq = "none"
    /\ handle_ = "null"
    /\ headers_ = <<>>
    /\ appended = <<>>
    /\ opts = NoOpts
    /\ res = NoResult

\* A request constructed and configured: a state the calls of NextRequest
\* reach from Init (TransferStartReachable), from which send is called.
InitTransfer ==
    /\ InitOthers
    /\ resources = acquire_node(acquire_session(NoResources, TRUE), TRUE)
    /\ rq = "ready"
    /\ handle_ = "live"
    /\ headers_ = <<content_type_header("text/xml; charset=utf-8")>>
    /\ appended = headers_
    /\ opts = [NoOpts EXCEPT !["CURLOPT_URL"] = <<"https://example.test/ews">>,
                             !["CURLOPT_POST"] = <<1>>]
    /\ res = [NoResult EXCEPT !.op = "set_method"]

NextResponse ==
    \/ \E c \in StatusCodes, d \in Buffers : Construct(c, d)
    \/ Payload
    \/ Code
    \/ \E by \in {"ctor", "assign", "self"}, x \in MovedFromDocs(doc_) : Move(by, x)
    \/ PayloadMovedFrom

SpecResponse == Init /\ [][NextResponse]_vars

SpecGuard == Init /\ [][NextGuard]_vars

SpecRequest == Init /\ [][NextRequest]_vars

SpecComposer == Init /\ [][NextComposer]_vars

SpecTransfer == InitTransfer /\ [][NextTransfer]_vars

----------------------------------------------------------------------------
(* Properties *)

AssertsOn == ~ndebug /\ enable_asserts

\* C1: on a wrapper built from a non-empty well-formed buffer the parser is
\* called at most once, by the first payload() call; after that call the
\* document and the buffer are the ones that single parse left, and every
\* payload() call returns that document without raising.
C1_ParsedAtMostOnce ==
    (alive /\ WellFormed(data0)) =>
        /\ parse_calls <= 1
        /\ n_payload >= 1 =>
              /\ parse_calls = 1
              /\ doc_ = rapidxml_parse(data0).doc
              /\ data_ = rapidxml_parse(data0).data
              /\ ret.op = "payload" => (ret.exc = "none" /\ ret.doc = doc_)

C1_Witness ==
    /\ alive /\ WellFormed(data0) /\ doc_ # <<>>
    /\ n_payload >= 2 /\ parse_calls = 1
    /\ ret.op = "payload" /\ ~ret.parsed_now

\* C2: once the scope is left (normally, by an early return or by an
\* exception) and the program still runs, the action of every guard
\* constructed in it ran exactly once, or not at all if release() was
\* called on the guard; while the scope is open no action has run, and no
\* action ever runs twice or after release().
C2_RunsOnceUnlessReleased ==
    \A i \in 1..Len(guards) :
        guards[i].constructed =>
            /\ guards[i].runs <= 1
            /\ guards[i].released => guards[i].runs = 0
            /\ (gscope = "open") => guards[i].runs = 0
            /\ (gscope = "exited" /\ proc = "running") =>
                  guards[i].runs = IF guards[i].released THEN 0 ELSE 1

C2_Witness ==
    /\ gscope = "exited" /\ proc = "running" /\ exit_kind = "exception"
    /\ Len(guards) = 2
    /\ guards[1].constructed /\ guards[1].released /\ guards[1].runs = 0
    /\ guards[2].constructed /\ ~guards[2].released /\ guards[2].runs = 1

\* C3 as stated: every payload() call on a wrapper built from a malformed
\* buffer raises parse_error.
C3_EveryCallRaises ==
    (ret.op = "payload" /\ Malformed(data0)) => ret.exc = "ews::parse_error"

\* C3, amended: the first payload() call on a wrapper built from a malformed
\* buffer raises parse_error with the parser's what(), and no payload() call
\* lets rapidxml::parse_error out.
C3_FirstCallRaises ==
    /\ ret.op = "payload" => ret.exc # "rapidxml::parse_error"
    /\ (ret.op = "payload" /\ Malformed(data0) /\ n_payload = 1) =>
          /\ ret.exc = "ews::parse_error"
          /\ ret.what = rapidxml_parse(data0).what

C3_Witness ==
    /\ ret.op = "payload" /\ Malformed(data0) /\ n_payload = 1
    /\ ret.exc = "ews::parse_error" /\ ret.what = "unexpected end of data"

\* C4 as stated: no wrapper holding an empty buffer ever exists.
C4_NoEmptyWrapper == ~(alive /\ data_ = <<>>)

\* C4, amended: constructing a wrapper from an empty buffer aborts the
\* program exactly in builds that compile assertions in (EWS_ENABLE_ASSERTS
\* without NDEBUG); in every other build the wrapper is constructed.
C4_RejectedIffAssertsOn ==
    (ret.op = "construct" /\ ret.empty) =>
        IF AssertsOn
        THEN ret.exc = "abort" /\ proc = "aborted" /\ ~alive
        ELSE ret.exc = "none" /\ proc = "running" /\ alive /\ data_ = <<>>

C4_Witness ==
    ret.op = "construct" /\ ret.empty /\ ret.exc = "abort" /\ proc = "aborted"

RECURSIVE Flatten(_)
Flatten(ss) == IF ss = <<>> THEN <<>> ELSE Head(ss) \o Flatten(Tail(ss))

Carries(what, text) == \E i \in 1..Len(what) : what[i] = text

\* C5: when send starts the transfer, the list attached as CURLOPT_HTTPHEADER
\* holds exactly the header strings appended so far, in the order appended.
C5_HeadersExact ==
    (rq = "sending") => opts["CURLOPT_HTTPHEADER"] = <<appended>>

\* C6: a send that succeeds after one or more (non-empty) chunks returns the
\* bytes of the chunks, in delivery order, as one text (followed by its
\* terminator only), with the status code the transport reported.
C6_AccumulatedBytes ==
    (res.op = "send" /\ res.exc = "none" /\ rq = "done" /\ ~oom
        /\ Len(chunks) >= 1 /\ \A i \in 1..Len(chunks) : chunks[i] # <<>>) =>
        /\ res.response # <<>>
        /\ res.response[1].data = Flatten(chunks) \o <<NUL>>
        /\ alive /\ data_ = res.response[1].data /\ code_ = res.response[1].code

\* The transfer of a send was started, delivered non-empty chunks only, and
\* failed: curl_easy_perform returned an error, or memory ran out in the
\* write callback.
TransferFailed ==
    /\ rq = "done" /\ res.op = "send" /\ n_perform >= 1
    /\ \A i \in 1..Len(chunks) : chunks[i] # <<>>
    /\ res.rc # "CURLE_OK" \/ write_aborted \/ cb_escaped

\* C7: a send whose transfer failed raises curl_error carrying libcurl's
\* text for the failure, returns no response, and called curl_easy_perform
\* exactly once.
C7_FailureRaisesCurlError ==
    TransferFailed =>
        /\ res.exc = "curl_error"
        /\ Carries(res.what, curl_easy_strerror(res.rc))
        /\ res.response = <<>>
        /\ n_perform = 1

\* C8: when memory cannot be obtained for a (non-empty) chunk the write
\* callback returns a count other than the chunk's size, and no exception
\* ever leaves the callback.
C8_CallbackSignalsFailure ==
    /\ ~cb_escaped
    /\ (oom /\ \A i \in 1..Len(chunks) : chunks[i] # <<>>) => write_aborted

C10_EnvelopeLayout ==
    (in_composer /\ opts["CURLOPT_POSTFIELDS"] # <<>>) =>
        LET e == opts["CURLOPT_POSTFIELDS"][1]
            h == soap_in.headers
            n == Len(h)
            k == IF n = 0 THEN 2 ELSE n + 4
        IN  /\ Len(e) = k + 4
            /\ e[1] = XML_DECL /\ e[2] = ENV_OPEN
            /\ n = 0 => \A i \in 1..Len(e) : e[i] \notin {HDR_OPEN, HDR_CLOSE}
            /\ n > 0 => /\ e[3] = HDR_OPEN
                        /\ SubSeq(e, 4, n + 3) = h
                        /\ e[n + 4] = HDR_CLOSE
            /\ e[k + 1] = BODY_OPEN
            /\ e[k + 2] = soap_in.body
            /\ e[k + 3] = BODY_CLOSE
            /\ e[k + 4] = ENV_CLOSE
            /\ opts["CURLOPT_POSTFIELDSIZE"] # <<>> =>
                  opts["CURLOPT_POSTFIELDSIZE"] = <<Len(e)>>

C10_Witness ==
    /\ in_composer /\ rq = "sending"
    /\ soap_in.headers = <<"<t:Bar/>", "<t:RequestServerVersion/>">>
    /\ soap_in.body = "<m:Ping/>"
    /\ opts["CURLOPT_POSTFIELDS"] # <<>>

\* C11: a set_credentials call that returned left CURLOPT_USERPWD set to
\* domain, backslash, username, colon, password of the credential and
\* CURLOPT_HTTPAUTH set to NTLM; the credential's fields are the ones it was
\* constructed with after every call, returned or raised.
C11_CertifySetsLogin ==
    /\ creds_ = creds_in
    /\ (res.op = "set_credentials" /\ res.exc = "none") =>
          /\ opts["CURLOPT_USERPWD"] =
                << <<creds_in.domain, "\\", creds_in.username, ":",
                     creds_in.password>> >>
          /\ opts["CURLOPT_HTTPAUTH"] = <<"CURLAUTH_NTLM">>

C11_Witness ==
    /\ res.op = "set_credentials" /\ res.exc = "none"
    /\ creds_in = ntlm_credentials("alice", "secret", "CORP")
    /\ opts["CURLOPT_USERPWD"] = << <<"CORP", "\\", "alice", ":", "secret">> >>

\* C12: whatever the action of a guard throws when its destructor calls it,
\* the destructor swallows it: it returns and the program goes on.
C12_DestructorSwallows ==
    \A i \in 1..Len(guards) :
        guards[i].dtor \in {"none", "not called", "returned", "swallowed"}

\* C13: when capturing the action failed, the action was called exactly
\* once, by the constructor, and is not called again when the scope is left.
C13_CaptureFailureRunsOnce ==
    \A i \in 1..Len(guards) :
        ~guards[i].constructed => guards[i].runs = 1

\* C14: a move (by construction or by assignment) of a wrapper holding a
\* buffer hands buffer, document, status code and parsed flag of the source
\* to the destination, and the moved-from wrapper, which owns no buffer any
\* more, neither reports itself parsed nor hands out a document.
C14_MoveTransfersTogether ==
    (moved_from.exists /\ moved_from.before.data_ # <<>>) =>
        /\ ret.op = "move" =>
              Members(data_, doc_, code_, parsed_) = moved_from.before
        /\ moved_from.now.data_ = <<>>
        /\ ~moved_from.now.parsed_
        /\ ret.op = "payload on moved-from" => ret.exc # "none"

\* C15: on a wrapper that was not moved, code() returns the status code
\* given to the constructor, before any payload() call, after one that
\* returned and after one that raised; code_ never changes.
C15_CodeAlwaysAvailable ==
    (alive /\ ~moved_from.exists) =>
        /\ code_ = code0
        /\ ret.op = "code" => (ret.exc = "none" /\ ret.code = code0)

C15_Witness ==
    /\ alive /\ ~moved_from.exists /\ Malformed(data0)
    /\ n_payload >= 1 /\ parsed_ /\ parse_calls = 1
    /\ ret.op = "code" /\ ret.code = 500 /\ code0 = 500

\* C16: when curl_easy_init gives no session the constructor raises
\* curl_error ("Could not start libcurl session") and no request object
\* exists; a request that exists has a handle that is not null, and every
\* configuration call and every send was made on such a handle.
C16_HandleNeverNull ==
    /\ (handle_ = "null" /\ rq # "none") =>
          /\ rq \in {"failed", "done"}
          /\ res.op = "http_request"
          /\ res.exc = "curl_error"
          /\ res.what = <<"Could not start libcurl session">>
    /\ rq \in {"ready", "sending"} => handle_ = "live"
    /\ res.op \in {"set_method", "set_content_type", "set_credentials",
                   "set_option", "send"} => handle_ # "null"

C16_Witness ==
    /\ rq = "failed" /\ handle_ = "null"
    /\ res.op = "http_request" /\ res.exc = "curl_error"
    /\ res.what = <<"Could not start libcurl session">>

\* C17: once a payload() call on a wrapper built from a malformed buffer
\* has raised, the wrapper is marked parsed and holds the document the
\* failed parse left; every later payload() call returns that document
\* without raising, and the parser is not called again.
C17_FailedParseMarksParsed ==
    (alive /\ Malformed(data0) /\ n_payload >= 1) =>
        /\ parsed_
        /\ parse_calls = 1
        /\ doc_ = rapidxml_parse(data0).doc
        /\ (ret.op = "payload" /\ n_payload >= 2) =>
              /\ ret.exc = "none"
              /\ ret.doc = doc_
              /\ ~ret.parsed_now

C17_Witness ==
    /\ alive /\ Malformed(data0) /\ n_payload = 2 /\ parse_calls = 1
    /\ ret.op = "payload" /\ ret.exc = "none" /\ ret.doc = <<LT_A, CL_A>>

\* C18: the wrapper a send returns holds a non-empty buffer that ends with
\* the NUL terminator, however many chunks the transfer delivered.
C18_ResponseNulTerminated ==
    (rq = "done" /\ res.op = "send" /\ res.exc = "none" /\ ~oom) =>
        /\ res.response # <<>>
        /\ LET d == res.response[1].data
           IN  d # <<>> /\ d[Len(d)] = NUL
        /\ alive /\ data_ = res.response[1].data

\* the request object is gone: its constructor raised, or it was destroyed
RequestGone ==
    /\ proc = "running"
    /\ \/ rq \in {"failed", "destroyed"}
       \/ in_composer /\ rq = "done"

\* C19: a request acquires at most one session, and none twice; once the
\* request is gone (after a normal exit, after its constructor raised on the
\* URL, after a configuration call or send raised) the session it acquired
\* was cleaned up exactly once and every node of its header list was freed,
\* by exactly one curl_slist_free_all.
C19_ReleasedExactlyOnce ==
    /\ resources.init <= 1
    /\ resources.cleanup <= resources.init
    /\ resources.free_all <= resources.init
    /\ resources.freed <= resources.nodes
    /\ (RequestGone /\ resources.init = 1) =>
          /\ resources.cleanup = 1
          /\ resources.free_all = 1
          /\ resources.freed = resources.nodes

\* C20: curl_easy_perform is called only with user agent, body, body
\* length, header list, write callback and write target set on the handle;
\* a send in which setting an option raised never called curl_easy_perform,
\* received nothing and returned no response.
C20_TransferAfterOptions ==
    /\ n_perform >= 1 => rq \in {"sending", "done", "destroyed"}
    /\ rq = "sending" =>
          /\ n_perform = 1
          /\ opts["CURLOPT_USERAGENT"] = <<"libcurl-agent/1.0">>
          /\ opts["CURLOPT_POSTFIELDS"] # <<>>
          /\ opts["CURLOPT_POSTFIELDSIZE"] = <<Len(opts["CURLOPT_POSTFIELDS"][1])>>
          /\ opts["CURLOPT_HTTPHEADER"] = <<headers_>>
          /\ opts["CURLOPT_WRITEFUNCTION"] = <<"callback">>
          /\ opts["CURLOPT_WRITEDATA"] = <<"&response_data">>
    /\ (res.op = "send" /\ res.exc = "curl_error"
          /\ res.what[1] # "curl_easy_perform") =>
          /\ n_perform = 0
          /\ chunks = <<>>
          /\ res.response = <<>>
          /\ ~alive

C20_Witness ==
    /\ rq = "done" /\ res.op = "send" /\ res.exc = "curl_error"
    /\ res.rc = "CURLE_OUT_OF_MEMORY"
    /\ opts["CURLOPT_WRITEFUNCTION"] = <<"callback">>
    /\ opts["CURLOPT_WRITEDATA"] = <<>>
    /\ n_perform = 0

\* C21: a run of make_raw_soap_request constructs one request and calls
\* set_method, set_content_type, set_credentials and send on it in that
\* order, stopping at the first call that raises; send is called once when
\* none of the earlier calls raised and not at all otherwise; when send
\* begins its transfer the method, the Content-Type header and the
\* credentials are set on the request; and what send returns or raises is
\* what the run returns or raises.
C21_ComposerLifecycle ==
    in_composer =>
        /\ resources.init <= 1
        /\ \E n \in 1..Len(ComposerCalls) : calls = SubSeq(ComposerCalls, 1, n)
        /\ res.op = calls[Len(calls)]
        /\ res.op # "send" => res.exc # "none"
        /\ Len(calls) < Len(ComposerCalls) => (n_perform = 0 /\ ~alive)
        /\ n_perform <= 1
        /\ rq = "sending" =>
              /\ calls = ComposerCalls
              /\ opts["CURLOPT_POST"] = <<1>>
              /\ opts["CURLOPT_HTTPHEADER"] =
                    << <<content_type_header("text/xml; charset=utf-8")>> >>
              /\ opts["CURLOPT_USERPWD"] =
                    << <<creds_in.domain, "\\", creds_in.username, ":",
                         creds_in.password>> >>
              /\ opts["CURLOPT_HTTPAUTH"] = <<"CURLAUTH_NTLM">>
        /\ (rq = "done" /\ res.op = "send" /\ res.exc = "none") =>
              /\ res.response # <<>>
              /\ alive
              /\ data_ = res.response[1].data
              /\ code_ = res.response[1].code

====
